---- MODULE Spec2Model ----
(***************************************************************************)
(* A model of fwup's MBR codec (src/src/mbr.c, src/src/mbr.h) and of its   *)
(* archive re-signing routine (src/src/fwup_sign.c).                       *)
(*                                                                         *)
(* uint32_t values are pairs <<hi, lo>> of 16-bit halves, because the      *)
(* values the code handles (block offsets up to 2^32-2, sums that wrap at  *)
(* 2^32) do not fit the model checker's integers.  All arithmetic on them  *)
(* is modulo 2^32, as in the C code.                                       *)
(***************************************************************************)
EXTENDS Integers, Sequences, FiniteSets, TLC

VARIABLES
    mbr_cfg,        \* the configuration tree handed to the MBR entry points
    pc,             \* which MBR entry point runs next
    verify_rc,      \* what mbr_verify_cfg returned
    create_rc,      \* what mbr_create_cfg returned
    mbr_num_blocks, \* mbr_create_cfg's num_blocks argument
    mbr_output,     \* the caller's 512-byte buffer
    decode_rc,      \* what mbr_decode returned
    decoded,        \* the table mbr_decode filled in
    sign,           \* fwup_sign's locals and its position
    in_archive,     \* the entries of the input archive, in stored order
    out_archive,    \* the entries written to the temporary archive so far
    files,          \* the files at output_filename and at the temporary path
    ledger          \* per resource, how often it was acquired and released

mbr_vars ==
    << mbr_cfg, pc, verify_rc, create_rc, mbr_num_blocks, mbr_output,
       decode_rc, decoded >>

sign_vars == << sign, in_archive, out_archive, files, ledger >>

vars == << mbr_vars, sign_vars >>

(***************************************************************************)
(* Bounds of the explored inputs.                                          *)
(***************************************************************************)
MaxCount == 3

MaxLowOff == 1

MaxBlocks == 3

(***************************************************************************)
(* Program constants.                                                      *)
(***************************************************************************)
MBR_MAX_PRIMARY_PARTITIONS == 4

SECTORS_PER_HEAD == 63

HEADS_PER_CYLINDER == 255

Half == 256 * 256

(***************************************************************************)
(* uint32_t arithmetic on <<hi, lo>> pairs.                                *)
(***************************************************************************)
U32(n) == <<n \div Half, n % Half>>

Add32(a, b) ==
    LET lo == a[2] + b[2]
        hi == a[1] + b[1] + (lo \div Half)
    IN  <<hi % Half, lo % Half>>

Sub32(a, b) ==
    LET borrow == IF a[2] < b[2] THEN 1 ELSE 0
        lo == a[2] - b[2] + borrow * Half
        hi == a[1] - b[1] - borrow
    IN  <<hi % Half, lo>>

Lt32(a, b) == a[1] < b[1] \/ (a[1] = b[1] /\ a[2] < b[2])

Le32(a, b) == a = b \/ Lt32(a, b)

Zero32 == <<0, 0>>

One32 == <<0, 1>>

\* UINT32_MAX and INT32_MAX of <stdint.h>
UINT32_MAX == <<65535, 65535>>

INT32_MAX == <<32767, 65535>>

Slots == 0 .. (MBR_MAX_PRIMARY_PARTITIONS - 1)

\* struct mbr_partition after memset(.., 0, ..)
ZeroPartition ==
    [boot_flag |-> FALSE, expand_flag |-> FALSE, partition_type |-> 0,
     block_offset |-> Zero32, block_count |-> Zero32]

ZeroTable == [i \in Slots |-> ZeroPartition]

\* A buffer of C bytes is a sequence; C's buf[k] is element k+1.
Byte(buf, k) == buf[k + 1]

\* memcpy / memset of a run of bytes to buf[at], buf[at+1], ...
Put(buf, at, bytes) ==
    [i \in 1 .. Len(buf) |->
        IF i - 1 >= at /\ i - 1 < at + Len(bytes) THEN bytes[i - at] ELSE buf[i]]

Fill(n, b) == [k \in 1 .. n |-> b]

\* a NULL byte pointer
NullBytes == << >>

\* util.h copy_le16 / copy_le32: little-endian packing
copy_le16(v) == <<v % 256, (v \div 256) % 256>>

copy_le32(v) == copy_le16(v[2]) \o copy_le16(v[1])

(***************************************************************************)
(* mbr_verify, mbr.c:36-85.  The outer loop runs over the slots in index   *)
(* order and returns at the first error; 0 is success, -1 an error.        *)
(***************************************************************************)
\* mbr.c:77-78, the test of slot i's range against slot j's
RangesOverlap(ileft, iright, jleft, jright) ==
    \/ (Le32(jleft, ileft) /\ Lt32(ileft, jright))
    \/ (Lt32(jleft, iright) /\ Le32(iright, jright))

\* mbr.c:65-81, the inner loop for slot i
OverlapsAnother(table, i) ==
    LET ileft == table[i].block_offset
        iright == Add32(ileft, table[i].block_count)
    IN  \E j \in Slots :
            /\ j # i
            /\ LET jleft == table[j].block_offset
                   jright == Add32(jleft, table[j].block_count)
               IN  /\ ~(table[j].partition_type = 0 \/ jleft = jright)
                   /\ RangesOverlap(ileft, iright, jleft, jright)

RECURSIVE mbr_verify_from(_, _, _)
mbr_verify_from(table, i, expanding) ==
    IF i >= MBR_MAX_PRIMARY_PARTITIONS THEN 0
    ELSE LET partition == table[i]
             ileft == partition.block_offset
             iright == Add32(ileft, partition.block_count)
         IN  IF partition.partition_type > 255 \/ partition.partition_type < 0
             THEN -1
             ELSE IF partition.partition_type = 0
             THEN mbr_verify_from(table, i + 1, expanding)
             ELSE IF ileft = iright /\ ~partition.expand_flag
             THEN mbr_verify_from(table, i + 1, expanding)
             ELSE IF expanding
             THEN -1
             ELSE IF OverlapsAnother(table, i)
             THEN -1
             ELSE mbr_verify_from(table, i + 1,
                                  expanding \/ partition.expand_flag)

mbr_verify(table) == mbr_verify_from(table, 0, FALSE)

(***************************************************************************)
(* lba_to_chs, mbr.c:87-100: the three CHS bytes are written only when the *)
(* address is at most 63*255*1023; otherwise the buffer is left as it was. *)
(***************************************************************************)
ChsLimit == SECTORS_PER_HEAD * HEADS_PER_CYLINDER * 1023

lba_to_chs(lba, out, at) ==
    IF Le32(lba, U32(ChsLimit))
    THEN LET n == lba[1] * Half + lba[2]
             cylinder == n \div (SECTORS_PER_HEAD * HEADS_PER_CYLINDER)
             head == (n \div SECTORS_PER_HEAD) % HEADS_PER_CYLINDER
             sector == (n % SECTORS_PER_HEAD) + 1
         IN  Put(out, at, << head,
                             ((cylinder \div 256) % 4) * 64 + sector,
                             cylinder % 256 >>)
    ELSE out

(***************************************************************************)
(* create_partition, mbr.c:102-131.  out is the 16-byte slice of the       *)
(* caller's buffer that the entry occupies, with the bytes it held before. *)
(***************************************************************************)
\* a variant that grows the partition whenever num_blocks is known, without
\* comparing it to the declared end
EffectiveCount_always_grows(partition, num_blocks) ==
    IF partition.expand_flag /\ num_blocks # Zero32
    THEN Sub32(num_blocks, partition.block_offset)
    ELSE partition.block_count

\* mbr.c:104-109
EffectiveCount(partition, num_blocks) ==
    IF /\ partition.expand_flag
       /\ Lt32(Add32(partition.block_offset, partition.block_count), num_blocks)
    THEN Sub32(num_blocks, partition.block_offset)
    ELSE partition.block_count

\* mbr.c:112-122
EntryHead(partition, block_count, out) ==
    IF partition.partition_type > 0
    THEN LET o1 == Put(out, 0, << IF partition.boot_flag THEN 128 ELSE 0 >>)
             o2 == lba_to_chs(partition.block_offset, o1, 1)
             o3 == Put(o2, 4, << partition.partition_type % 256 >>)
         IN  lba_to_chs(Sub32(Add32(partition.block_offset, block_count), One32),
                        o3, 5)
    ELSE Put(out, 0, Fill(8, 0))

create_partition(partition, out, num_blocks) ==
    LET block_count == EffectiveCount(partition, num_blocks)
        o1 == EntryHead(partition, block_count, out)
        o2 == Put(o1, 8, copy_le32(partition.block_offset))
    IN  Put(o2, 12, copy_le32(block_count))

(***************************************************************************)
(* write_osip, mbr.c:133-177.  out is the caller's buffer from byte 0 on   *)
(* (mbr_create hands it the 440-byte bootstrap region, already zeroed).    *)
(***************************************************************************)
RECURSIVE Xor(_, _)
Xor(a, b) ==
    IF a = 0 THEN b
    ELSE IF b = 0 THEN a
    ELSE ((a + b) % 2) + 2 * Xor(a \div 2, b \div 2)

\* mbr.c:171-173: sum = output[0]; for (i = 1; i < header_size; i++) sum ^= output[i]
\* The XOR of out[lo .. hi-1]; XOR being associative, the run is folded by
\* halves to keep the evaluation shallow.
RECURSIVE XorRange(_, _, _)
XorRange(out, lo, hi) ==
    IF hi - lo <= 1 THEN Byte(out, lo)
    ELSE LET mid == (lo + hi) \div 2
         IN  Xor(XorRange(out, lo, mid), XorRange(out, mid, hi))

XorSum(out, header_size) == XorRange(out, 0, header_size)

\* mbr.c:149
HeaderSize(osip) == (32 + 24 * osip.num_images) % Half

\* mbr.c:158-165, one 24-byte descriptor
OsiiBytes(descriptor) ==
    copy_le16(descriptor.os_minor) \o copy_le16(descriptor.os_major)
    \o copy_le32(descriptor.start_block_offset)
    \o copy_le32(descriptor.ddr_load_address)
    \o copy_le32(descriptor.entry_point)
    \o copy_le32(descriptor.image_size)
    \o << descriptor.attribute >> \o Fill(3, 0)

\* mbr.c:154-168
RECURSIVE OsiiTable(_, _)
OsiiTable(osip, n) ==
    IF n = 0 THEN << >>
    ELSE OsiiTable(osip, n - 1) \o OsiiBytes(osip.descriptors[n - 1])

\* mbr.c:136-152
OsipFixedPart(osip) ==
    << 36, 79, 83, 36, 0, osip.minor, osip.major, 0,
       osip.num_pointers, osip.num_images >>
    \o copy_le16(HeaderSize(osip)) \o Fill(20, 0)

\* a variant whose checksum loop leaves out byte 0
write_osip_sum_from_1(osip, out) ==
    LET o1 == Put(out, 0, OsipFixedPart(osip) \o OsiiTable(osip, osip.num_images))
        sum == XorRange(o1, 1, HeaderSize(osip))
    IN  Put(o1, 7, << sum >>)

write_osip(osip, out) ==
    LET o1 == Put(out, 0, OsipFixedPart(osip) \o OsiiTable(osip, osip.num_images))
        sum == XorSum(o1, HeaderSize(osip))
    IN  Put(o1, 7, << sum >>)

(***************************************************************************)
(* mbr_create, mbr.c:189-225.  bootstrap is NullBytes or 440 bytes.  The   *)
(* result is the return code and the caller's buffer after the call.       *)
(***************************************************************************)
\* mbr.c:202-208
BootRegion(bootstrap, osip) ==
    LET o1 == IF bootstrap # NullBytes THEN bootstrap ELSE Fill(440, 0)
    IN  IF osip.include_osip THEN write_osip(osip, o1) ELSE o1

\* mbr.c:217-220
EntrySlice(output, i) == SubSeq(output, 447 + 16 * i, 462 + 16 * i)

RECURSIVE PartitionEntries(_, _, _, _)
PartitionEntries(table, output, num_blocks, n) ==
    IF n = 0 THEN << >>
    ELSE PartitionEntries(table, output, num_blocks, n - 1)
         \o create_partition(table[n - 1], EntrySlice(output, n - 1), num_blocks)

mbr_create(table, bootstrap, osip, signature, num_blocks, output) ==
    IF bootstrap # NullBytes /\ osip.include_osip
    THEN [rc |-> -1, output |-> output]
    ELSE IF mbr_verify(table) < 0
    THEN [rc |-> -1, output |-> output]
    ELSE [rc |-> 0,
          output |-> BootRegion(bootstrap, osip)
                     \o copy_le32(signature)
                     \o << 0, 0 >>
                     \o PartitionEntries(table, output, num_blocks,
                                         MBR_MAX_PRIMARY_PARTITIONS)
                     \o << 85, 170 >>]

(***************************************************************************)
(* read_partition, mbr.c:227-242, and mbr_decode, mbr.c:250-264.           *)
(***************************************************************************)
\* (input[0]) | (input[1] << 8) | (input[2] << 16) | (input[3] << 24)
read_le32(input, at) ==
    << Byte(input, at + 3) * 256 + Byte(input, at + 2),
       Byte(input, at + 1) * 256 + Byte(input, at) >>

\* a variant that reads the two LE32 fields from each other's place
read_partition_swapped(input) ==
    [boot_flag |-> (Byte(input, 0) \div 128) % 2 = 1,
     expand_flag |-> FALSE,
     partition_type |-> Byte(input, 4),
     block_offset |-> read_le32(input, 12),
     block_count |-> read_le32(input, 8)]

read_partition(input) ==
    [boot_flag |-> (Byte(input, 0) \div 128) % 2 = 1,
     expand_flag |-> FALSE,
     partition_type |-> Byte(input, 4),
     block_offset |-> read_le32(input, 8),
     block_count |-> read_le32(input, 12)]

mbr_decode(input) ==
    IF Byte(input, 510) # 85 \/ Byte(input, 511) # 170
    THEN [rc |-> -1, table |-> ZeroTable]
    ELSE [rc |-> 0, table |-> [i \in Slots |-> read_partition(EntrySlice(input, i))]]

(***************************************************************************)
(* The configuration tree (libconfuse's cfg_t) as the projection reads it. *)
(* A partition section is                                                  *)
(*   [title, type, block_offset, block_count, boot, expand]                *)
(* where title is strtoul(cfg_title), type is cfg_getint("type"),          *)
(* block_offset stands for the "block-offset" string by what strtoul makes *)
(* of it: kind "null" (absent or empty), "big" (2^32 or more) or "num"     *)
(* (val, with trailing = characters left after the number), and            *)
(* block_count is cfg_getint("block-count") converted to uint32_t.         *)
(***************************************************************************)
\* mbr.c:275-310, one pass of the while loop; st = [rc, partitions, found]
cfg_partition_step(st, partition) ==
    LET partition_ix == partition.title
        off == partition.block_offset
    IN  IF partition_ix < 0 \/ partition_ix >= 4
        THEN [st EXCEPT !.rc = -1]
        ELSE IF partition_ix \in st.found
        THEN [st EXCEPT !.rc = -1]
        ELSE IF partition.type < 0 \/ partition.type > 255
        THEN [st EXCEPT !.rc = -1, !.found = @ \cup {partition_ix}]
        ELSE IF off.kind = "null"
        THEN [st EXCEPT !.rc = -1, !.found = @ \cup {partition_ix}]
        ELSE IF off.kind = "big" \/ ~Lt32(off.val, UINT32_MAX)
        THEN [st EXCEPT !.rc = -1, !.found = @ \cup {partition_ix}]
        ELSE IF off.trailing
        THEN [st EXCEPT !.rc = -1, !.found = @ \cup {partition_ix}]
        ELSE IF ~Lt32(partition.block_count, INT32_MAX)
        THEN [st EXCEPT !.rc = -1, !.found = @ \cup {partition_ix}]
        ELSE [st EXCEPT
                !.found = @ \cup {partition_ix},
                \* on the error returns above the callers drop the table,
                \* so the fields are stored here in one step
                !.partitions[partition_ix] =
                    [boot_flag |-> partition.boot,
                     expand_flag |-> partition.expand,
                     partition_type |-> partition.type,
                     block_offset |-> off.val,
                     block_count |-> partition.block_count]]

\* mbr.c:266-316
RECURSIVE cfg_partitions_from(_, _, _)
cfg_partitions_from(sections, i, st) ==
    IF i > Len(sections) \/ st.rc < 0 THEN st
    ELSE cfg_partitions_from(sections, i + 1, cfg_partition_step(st, sections[i]))

mbr_cfg_to_partitions(cfg) ==
    cfg_partitions_from(cfg.partition, 1,
                        [rc |-> 0, partitions |-> ZeroTable, found |-> {}])

(***************************************************************************)
(* mbr_cfg_to_osip, mbr.c:318-362.  An osii section is [title, d] with d   *)
(* the values cfg_getint returns for its seven keys.                       *)
(***************************************************************************)
ZeroOsii ==
    [os_minor |-> 0, os_major |-> 0, start_block_offset |-> Zero32,
     ddr_load_address |-> Zero32, entry_point |-> Zero32,
     image_size |-> Zero32, attribute |-> 0]

ZeroOsip ==
    [include_osip |-> FALSE, minor |-> 0, major |-> 0, num_pointers |-> 0,
     num_images |-> 0, descriptors |-> [k \in 0 .. 15 |-> ZeroOsii]]

\* mbr.c:336-354, one pass of the while loop; st = [rc, osip, found, largest]
cfg_osii_step(st, osii) ==
    LET osii_ix == osii.title
    IN  IF osii_ix < 0 \/ osii_ix >= 15
        THEN [st EXCEPT !.rc = -1]
        ELSE IF osii_ix \in st.found
        THEN [st EXCEPT !.rc = -1]
        ELSE [st EXCEPT
                !.found = @ \cup {osii_ix},
                !.largest = IF osii_ix > @ THEN osii_ix ELSE @,
                !.osip.descriptors[osii_ix] =
                    [os_minor |-> osii.d.os_minor % Half,
                     os_major |-> osii.d.os_major % Half,
                     start_block_offset |-> osii.d.start_block_offset,
                     ddr_load_address |-> osii.d.ddr_load_address,
                     entry_point |-> osii.d.entry_point,
                     image_size |-> osii.d.image_size,
                     attribute |-> osii.d.attribute % 256]]

RECURSIVE cfg_osii_from(_, _, _)
cfg_osii_from(sections, i, st) ==
    IF i > Len(sections) \/ st.rc < 0 THEN st
    ELSE cfg_osii_from(sections, i + 1, cfg_osii_step(st, sections[i]))

mbr_cfg_to_osip(cfg) ==
    IF ~cfg.include_osip
    THEN [rc |-> 0, osip |-> ZeroOsip]
    ELSE LET st0 == [rc |-> 0, found |-> {}, largest |-> -1,
                     osip |-> [ZeroOsip EXCEPT
                                 !.include_osip = TRUE,
                                 !.major = cfg.osip_major % 256,
                                 !.minor = cfg.osip_minor % 256,
                                 !.num_pointers = cfg.osip_num_pointers % 256]]
             st == cfg_osii_from(cfg.osii, 1, st0)
             num_images == (st.largest + 1) % 256
         IN  IF st.rc < 0 THEN [rc |-> -1, osip |-> st.osip]
             ELSE [rc |-> IF num_images = 0 THEN -1 ELSE 0,
                   osip |-> [st.osip EXCEPT !.num_images = num_images]]

(***************************************************************************)
(* The "bootstrap-code" string is [present, len, hex, byte]: its length in *)
(* characters, whether all of them are hex digits, and the byte value the  *)
(* digits spell (the same for all 440 bytes in the explored inputs).       *)
(***************************************************************************)
\* util.c hex_to_bytes(str, bytes, 440): the string must spell exactly 440 bytes
hex_to_bytes(str) ==
    IF str.len # 440 * 2 \/ ~str.hex
    THEN [rc |-> -1, bytes |-> NullBytes]
    ELSE [rc |-> 0, bytes |-> Fill(440, str.byte)]

\* mbr_verify_cfg, mbr.c:364-388
mbr_verify_cfg(cfg) ==
    LET bootstrap_hex == cfg.bootstrap_code
        o == mbr_cfg_to_osip(cfg)
        p == mbr_cfg_to_partitions(cfg)
    IN  IF bootstrap_hex.present /\ bootstrap_hex.len # 440 * 2 THEN -1
        ELSE IF o.rc < 0 THEN -1
        ELSE IF o.osip.include_osip /\ bootstrap_hex.present THEN -1
        ELSE IF p.rc < 0 THEN -1
        ELSE IF p.found = {} THEN -1
        ELSE mbr_verify(p.partitions)

\* mbr_create_cfg, mbr.c:398-421
mbr_create_cfg(cfg, num_blocks, output) ==
    LET p == mbr_cfg_to_partitions(cfg)
        o == mbr_cfg_to_osip(cfg)
        bootstrap_hex == cfg.bootstrap_code
        h == hex_to_bytes(bootstrap_hex)
        signature == IF ~cfg.signature.present THEN Zero32 ELSE cfg.signature.val
    IN  IF p.rc < 0 THEN [rc |-> -1, output |-> output]
        ELSE IF o.rc < 0 THEN [rc |-> -1, output |-> output]
        ELSE IF bootstrap_hex.present /\ h.rc < 0 THEN [rc |-> -1, output |-> output]
        ELSE mbr_create(p.partitions,
                        IF bootstrap_hex.present THEN h.bytes ELSE NullBytes,
                        o.osip, signature, num_blocks, output)

(***************************************************************************)
(* The explored inputs of the MBR entry points.                            *)
(***************************************************************************)
\* offsets near 0 and the two largest offsets the projection accepts but one
OffPool == { U32(n) : n \in 0 .. MaxLowOff } \cup { <<65535, 65533>>, <<65535, 65534>> }

CountPool == { U32(n) : n \in 0 .. MaxCount }

\* num_blocks unknown (0), or a device of MaxBlocks blocks
NumBlocksPool == { Zero32, U32(MaxBlocks) }

\* what the caller's buffer holds before mbr_create_cfg
PriorBuffers == { Fill(512, 0), Fill(512, 255) }

NoBootstrap == [present |-> FALSE, len |-> 0, hex |-> TRUE, byte |-> 0]

NoSignature == [present |-> FALSE, val |-> Zero32]

NumOffset(v) == [kind |-> "num", val |-> v, trailing |-> FALSE]

\* partitions of one type over every offset and count: the layouts
LayoutSections ==
    [title : Slots, type : {131},
     block_offset : { NumOffset(v) : v \in OffPool },
     block_count : CountPool, boot : {FALSE}, expand : BOOLEAN]

\* used and unused entries with every flag, at the ends of the low range
FlagSections ==
    [title : Slots, type : {0, 131},
     block_offset : { NumOffset(Zero32), NumOffset(U32(MaxLowOff)) },
     block_count : { Zero32, U32(MaxCount) }, boot : BOOLEAN, expand : BOOLEAN]

\* no, one or two partition sections of a pool, in title order
SectionLists(pool) ==
    { << >> } \cup { << a >> : a \in pool }
    \cup UNION { { << a, b >> : b \in { x \in pool : x.title > a.title } } :
                  a \in pool }

PlainCfg(sections) ==
    [partition |-> sections, include_osip |-> FALSE,
     osip_major |-> 0, osip_minor |-> 0, osip_num_pointers |-> 0,
     osii |-> << >>, bootstrap_code |-> NoBootstrap, signature |-> NoSignature]

\* fwup_sign is not running
SignIdle ==
    /\ sign = [pc |-> "idle"]
    /\ in_archive = << >>
    /\ out_archive = << >>
    /\ files = [output |-> "absent", temp |-> FALSE, before |-> "absent"]
    /\ ledger = << >>

\* the state before any entry point has run
InitMbr ==
    /\ SignIdle
    /\ pc = "start"
    /\ verify_rc = 0
    /\ create_rc = 0
    /\ mbr_num_blocks = Zero32
    /\ mbr_output = NullBytes
    /\ decode_rc = 0
    /\ decoded = ZeroTable

MbrVerifyCfg ==
    /\ pc = "start"
    /\ verify_rc' = mbr_verify_cfg(mbr_cfg)
    /\ pc' = "verified"
    /\ UNCHANGED << mbr_cfg, create_rc, mbr_num_blocks, mbr_output, decode_rc, decoded >>
    /\ UNCHANGED sign_vars

MbrCreateCfg ==
    /\ pc = "verified"
    /\ \E nb \in NumBlocksPool, prior \in PriorBuffers :
          \E r \in { mbr_create_cfg(mbr_cfg, nb, prior) } :
              /\ mbr_num_blocks' = nb
              /\ create_rc' = r.rc
              /\ mbr_output' = r.output
    /\ pc' = "created"
    /\ UNCHANGED << mbr_cfg, verify_rc, decode_rc, decoded >>
    /\ UNCHANGED sign_vars

MbrDecode ==
    /\ pc = "created"
    /\ create_rc = 0
    /\ \E r \in { mbr_decode(mbr_output) } :
           /\ decode_rc' = r.rc
           /\ decoded' = r.table
    /\ pc' = "decoded"
    /\ UNCHANGED << mbr_cfg, verify_rc, create_rc, mbr_num_blocks, mbr_output >>
    /\ UNCHANGED sign_vars

NextMbr == MbrVerifyCfg \/ MbrCreateCfg \/ MbrDecode

\* partition tables of up to two sections from either pool
Init ==
    /\ \E pool \in { LayoutSections, FlagSections } :
          \E l \in SectionLists(pool) : mbr_cfg = PlainCfg(l)
    /\ InitMbr

Spec == Init /\ [][NextMbr]_vars

(***************************************************************************)
(* A second family of inputs: configurations that exercise the projection's*)
(* checks, the bootstrap code and the OSIP header.                         *)
(***************************************************************************)
BaseSection ==
    [title |-> 0, type |-> 131, block_offset |-> NumOffset(Zero32),
     block_count |-> One32, boot |-> FALSE, expand |-> FALSE]

\* the base section with one key changed at a time
ValidationSections ==
    { [BaseSection EXCEPT !.title = t] : t \in {0, 3, 4} }
    \cup { [BaseSection EXCEPT !.type = 256] }
    \cup { [BaseSection EXCEPT !.block_offset = o] :
             o \in { [kind |-> "null", val |-> Zero32, trailing |-> FALSE],
                     [kind |-> "big", val |-> Zero32, trailing |-> FALSE],
                     [kind |-> "num", val |-> One32, trailing |-> TRUE],
                     NumOffset(UINT32_MAX) } }
    \cup { [BaseSection EXCEPT !.block_count = INT32_MAX] }

ValidationLists ==
    { << >> } \cup { << a >> : a \in ValidationSections }
    \cup { << a, b >> : a \in ValidationSections, b \in ValidationSections }

BootstrapCodes ==
    { NoBootstrap,
      [present |-> TRUE, len |-> 880, hex |-> TRUE, byte |-> 235],
      [present |-> TRUE, len |-> 878, hex |-> TRUE, byte |-> 235],
      [present |-> TRUE, len |-> 880, hex |-> FALSE, byte |-> 0] }

OsiiPatterns ==
    { [os_minor |-> 0, os_major |-> 0, start_block_offset |-> Zero32,
       ddr_load_address |-> Zero32, entry_point |-> Zero32,
       image_size |-> Zero32, attribute |-> 0],
      [os_minor |-> 1, os_major |-> 2, start_block_offset |-> U32(2048),
       ddr_load_address |-> <<256, 0>>, entry_point |-> <<256, 4096>>,
       image_size |-> U32(513), attribute |-> 1],
      [os_minor |-> 70000, os_major |-> 65535, start_block_offset |-> UINT32_MAX,
       ddr_load_address |-> <<32768, 1>>, entry_point |-> <<4660, 22136>>,
       image_size |-> INT32_MAX, attribute |-> 511] }

OsiiSections == [title : 0 .. 15, d : OsiiPatterns]

\* no or one osii section, or two of which the first is numbered 0 or 14
OsiiLists ==
    { << >> } \cup { << a >> : a \in OsiiSections }
    \cup { << a, b >> : a \in { x \in OsiiSections : x.title \in {0, 14} /\ x.d.os_minor = 1 },
                        b \in OsiiSections }

ValidationCfg(l, b, o) ==
    [PlainCfg(l) EXCEPT !.bootstrap_code = b, !.include_osip = o[1], !.osii = o[2]]

OsipChoices ==
    { << FALSE, << >> >>, << TRUE, << >> >>,
      << TRUE, << [title |-> 0, d |-> ZeroOsii] >> >> }

OsipCfg(l, m) ==
    [PlainCfg(<< BaseSection >>) EXCEPT
        !.include_osip = TRUE, !.osii = l,
        !.osip_major = m[1], !.osip_minor = m[2], !.osip_num_pointers = m[3],
        !.signature = m[4]]

OsipScalars ==
    { << 0, 0, 0, NoSignature >>,
      << 257, 255, 128, [present |-> TRUE, val |-> <<4660, 43981>>] >> }

InitCfg ==
    /\ \/ \E l \in ValidationLists, b \in BootstrapCodes, o \in OsipChoices :
             mbr_cfg = ValidationCfg(l, b, o)
       \/ \E l \in OsiiLists, m \in OsipScalars : mbr_cfg = OsipCfg(l, m)
    /\ InitMbr

SpecCfg == InitCfg /\ [][NextMbr]_vars

(***************************************************************************)
(* fwup_sign, fwup_sign.c:38-178.                                          *)
(*                                                                         *)
(* The archive library, malloc, unlink and rename are the environment:     *)
(* each call may fail.  An entry of the input archive is [name, size,      *)
(* size_is_set]; an entry of the output archive is [name, size, data,      *)
(* filetype, perm], with data the number of content bytes written to it    *)
(* (they are copied in order, so data = size means the whole content) and  *)
(* size = -1 when no size was set on the header.  ERR_CLEANUP_MSG and      *)
(* OK_OR_CLEANUP set rc to -1 and jump to the cleanup label.               *)
(***************************************************************************)
Resources == {"in", "out", "configtxt", "temp_filename", "out_ae"}

Acquire(l, r) == [l EXCEPT ![r].acq = @ + 1]

Release(l, r) == [l EXCEPT ![r].rel = @ + 1]

\* sizeof(buffer), fwup_sign.c:42
BufferSize == 4096

\* a size check that lets a meta.conf of 50000 bytes through
MetaConfSizeBad_inclusive(configtxt_len) ==
    configtxt_len < 10 \/ configtxt_len > 50000

\* fwup_sign.c:92, the bound on the captured meta.conf
MetaConfSizeBad(configtxt_len) == configtxt_len < 10 \/ configtxt_len >= 50000

\* fwfile.c fwfile_add_meta_conf_str: writes meta.conf and its signature
fwfile_add_meta_conf_str(configtxt_len, out) ==
    out \o << [name |-> "meta.conf", size |-> configtxt_len,
               data |-> configtxt_len, filetype |-> "AE_IFREG", perm |-> 420],
              [name |-> "meta.conf.ed25519", size |-> 64,
               data |-> 64, filetype |-> "AE_IFREG", perm |-> 420] >>

\* fwup_sign.c:101-106, the normalized header of a copied entry
OutHeader(in_ae) ==
    [name |-> in_ae.name,
     size |-> IF in_ae.size_is_set THEN in_ae.size ELSE -1,
     data |-> 0, filetype |-> "AE_IFREG", perm |-> 420]

\* archive_entry_size(in_ae): 0 when the size is not set
archive_entry_size(in_ae) == IF in_ae.size_is_set THEN in_ae.size ELSE 0

\* goto cleanup with rc = -1
ErrCleanup(st) == [st EXCEPT !.pc = "cleanup", !.rc = -1]

\* fwup_sign.c:45-78: create the handles, check the arguments, open the files
SignOpen ==
    /\ sign.pc = "start"
    /\ \E configure_ok \in BOOLEAN, args_ok \in BOOLEAN, malloc_ok \in BOOLEAN,
          read_open_ok \in BOOLEAN, write_open_ok \in BOOLEAN :
          LET l0 == Acquire(Acquire(ledger, "in"), "out")
              st0 == [sign EXCEPT !.in = TRUE, !.out = TRUE]
          IN  IF ~configure_ok \/ ~args_ok \/ ~malloc_ok
              THEN /\ sign' = ErrCleanup(st0)
                   /\ ledger' = l0
                   /\ UNCHANGED files
              ELSE /\ ledger' = Acquire(l0, "temp_filename")
                   /\ IF ~read_open_ok
                      THEN /\ sign' = ErrCleanup([st0 EXCEPT !.temp_filename = TRUE])
                           /\ UNCHANGED files
                      ELSE IF ~write_open_ok
                      THEN /\ sign' = ErrCleanup([st0 EXCEPT !.temp_filename = TRUE])
                           /\ UNCHANGED files
                      ELSE /\ sign' = [st0 EXCEPT !.temp_filename = TRUE,
                                                  !.rc = 0, !.pc = "loop"]
                           /\ files' = [files EXCEPT !.temp = TRUE]
    /\ UNCHANGED << in_archive, out_archive >>
    /\ UNCHANGED mbr_vars

\* fwup_sign.c:113-128 from the loop test on: the entry is done when nothing
\* is left, and its header object is freed
CopyOrDone(st, l, size_left) ==
    IF size_left > 0
    THEN << [st EXCEPT !.pc = "copy", !.size_left = size_left], l >>
    ELSE << [st EXCEPT !.pc = "loop", !.size_left = 0], Release(l, "out_ae") >>

\* fwup_sign.c:81-112: read the next header and handle the entry up to its
\* first chunk.  The loop ends at anything but ARCHIVE_OK.
SignNextHeader ==
    /\ sign.pc = "loop"
    /\ \E r \in {"ARCHIVE_OK", "ARCHIVE_EOF", "ARCHIVE_FATAL"},
          call_ok \in BOOLEAN, add_ok \in BOOLEAN :
          /\ (r = "ARCHIVE_OK") => sign.pos < Len(in_archive)
          /\ (r = "ARCHIVE_EOF") => sign.pos = Len(in_archive)
          /\ IF r # "ARCHIVE_OK"
             THEN /\ sign' = [sign EXCEPT !.pc = "finish"]
                  /\ UNCHANGED << out_archive, ledger >>
             ELSE LET in_ae == in_archive[sign.pos + 1]
                      st == [sign EXCEPT !.pos = @ + 1]
                  IN  IF in_ae.name = "meta.conf.ed25519"
                      THEN /\ sign' = st
                           /\ UNCHANGED << out_archive, ledger >>
                      ELSE IF in_ae.name = "meta.conf"
                      THEN IF st.configtxt
                           THEN /\ sign' = ErrCleanup(st)
                                /\ UNCHANGED << out_archive, ledger >>
                           ELSE IF ~call_ok
                           \* archive_read_all_data failed: no buffer handed over
                           THEN /\ sign' = ErrCleanup(st)
                                /\ UNCHANGED << out_archive, ledger >>
                           ELSE /\ ledger' = Acquire(ledger, "configtxt")
                                /\ IF MetaConfSizeBad(in_ae.size) \/ ~add_ok
                                   THEN /\ sign' = ErrCleanup([st EXCEPT
                                                      !.configtxt = TRUE,
                                                      !.configtxt_len = in_ae.size])
                                        /\ UNCHANGED out_archive
                                   ELSE /\ sign' = [st EXCEPT
                                                      !.configtxt = TRUE,
                                                      !.configtxt_len = in_ae.size]
                                        /\ out_archive' =
                                             fwfile_add_meta_conf_str(in_ae.size,
                                                                      out_archive)
                      ELSE IF ~st.configtxt
                      THEN /\ sign' = ErrCleanup(st)
                           /\ UNCHANGED << out_archive, ledger >>
                      ELSE IF ~call_ok
                      \* archive_write_header failed: out_ae is not freed
                      THEN /\ sign' = ErrCleanup(st)
                           /\ ledger' = Acquire(ledger, "out_ae")
                           /\ UNCHANGED out_archive
                      ELSE LET n == CopyOrDone(st, Acquire(ledger, "out_ae"),
                                               archive_entry_size(in_ae))
                           IN  /\ sign' = n[1]
                               /\ ledger' = n[2]
                               /\ out_archive' = Append(out_archive, OutHeader(in_ae))
    /\ UNCHANGED << in_archive, files >>
    /\ UNCHANGED mbr_vars

\* fwup_sign.c:114-127: one pass of the copy loop.  archive_read_data returns
\* the whole chunk, a part of it, or nothing.
SignCopyChunk ==
    /\ sign.pc = "copy"
    /\ LET to_read == IF BufferSize > sign.size_left THEN sign.size_left ELSE BufferSize
       IN  \E len \in {to_read, to_read \div 2, 0}, write_ok \in BOOLEAN :
              IF len <= 0 \/ ~write_ok
              THEN /\ sign' = ErrCleanup(sign)
                   /\ UNCHANGED << out_archive, ledger >>
              ELSE LET n == CopyOrDone(sign, ledger, sign.size_left - len)
                   IN  /\ sign' = n[1]
                       /\ ledger' = n[2]
                       /\ out_archive' =
                             [out_archive EXCEPT ![Len(out_archive)].data = @ + len]
    /\ UNCHANGED << in_archive, files >>
    /\ UNCHANGED mbr_vars

\* fwup_sign.c:132-155: close the archives and rename the temporary file
\* over output_filename; with _WIN32, unlink output_filename first.
SignFinish ==
    /\ sign.pc = "finish"
    /\ \E unlink_ok \in BOOLEAN, rename_ok \in BOOLEAN :
          IF ~sign.configtxt
          THEN /\ sign' = ErrCleanup(sign)
               /\ UNCHANGED << files, ledger >>
          ELSE LET st == [sign EXCEPT !.in = FALSE, !.out = FALSE]
                   l == Release(Release(ledger, "out"), "in")
                   \* unlink fails with ENOENT when the file is absent
                   unlink_err == sign.win32 /\ ~unlink_ok /\ files.output # "absent"
                   f == IF sign.win32 /\ ~unlink_err
                        THEN [files EXCEPT !.output = "absent"] ELSE files
               IN  IF unlink_err
                   THEN /\ sign' = ErrCleanup(st)
                        /\ ledger' = l
                        /\ UNCHANGED files
                   ELSE IF ~rename_ok
                   THEN /\ sign' = ErrCleanup([st EXCEPT !.rename_called = TRUE])
                        /\ ledger' = l
                        /\ files' = f
                   ELSE /\ sign' = [st EXCEPT !.rename_called = TRUE,
                                              !.temp_filename = FALSE,
                                              !.pc = "cleanup"]
                        /\ ledger' = Release(l, "temp_filename")
                        /\ files' = [f EXCEPT !.output = "new", !.temp = FALSE]
    /\ UNCHANGED << in_archive, out_archive >>
    /\ UNCHANGED mbr_vars

\* fwup_sign.c:157-176: the cleanup label and the return
SignCleanup ==
    /\ sign.pc = "cleanup"
    /\ LET l1 == IF sign.out THEN Release(ledger, "out") ELSE ledger
           l2 == IF sign.in THEN Release(l1, "in") ELSE l1
           l3 == IF sign.temp_filename THEN Release(l2, "temp_filename") ELSE l2
           l4 == IF sign.configtxt THEN Release(l3, "configtxt") ELSE l3
       IN  /\ ledger' = l4
           /\ files' = IF sign.temp_filename
                       THEN [files EXCEPT !.temp = FALSE] ELSE files
    /\ sign' = [sign EXCEPT !.pc = "done"]
    /\ UNCHANGED << in_archive, out_archive >>
    /\ UNCHANGED mbr_vars

NextSign ==
    SignOpen \/ SignNextHeader \/ SignCopyChunk \/ SignFinish \/ SignCleanup

(***************************************************************************)
(* The explored input archives: up to MaxEntries entries of the pool.      *)
(***************************************************************************)
MaxEntries == 3

EntryPool ==
    { [name |-> "meta.conf", size |-> n, size_is_set |-> TRUE] :
         n \in {9, 10, 49999, 50000} }
    \cup { [name |-> "meta.conf.ed25519", size |-> 64, size_is_set |-> TRUE],
           [name |-> "rootfs.img", size |-> BufferSize + 904, size_is_set |-> TRUE],
           [name |-> "empty", size |-> 0, size_is_set |-> TRUE],
           [name |-> "stream", size |-> 100, size_is_set |-> FALSE] }

ArchivesOfLength(n) == [1 .. n -> EntryPool]

InitSign ==
    /\ \E n \in 0 .. MaxEntries : in_archive \in ArchivesOfLength(n)
    /\ \E win32 \in BOOLEAN :
          sign = [pc |-> "start", rc |-> 0, in |-> FALSE, out |-> FALSE,
                  temp_filename |-> FALSE, configtxt |-> FALSE,
                  configtxt_len |-> 0, pos |-> 0, size_left |-> 0,
                  rename_called |-> FALSE, win32 |-> win32]
    /\ out_archive = << >>
    /\ \E before \in {"absent", "old"} :
          files = [output |-> before, temp |-> FALSE, before |-> before]
    /\ ledger = [r \in Resources |-> [acq |-> 0, rel |-> 0]]
    /\ mbr_cfg = PlainCfg(<< >>)
    /\ pc = "idle"
    /\ verify_rc = 0
    /\ create_rc = 0
    /\ mbr_num_blocks = Zero32
    /\ mbr_output = NullBytes
    /\ decode_rc = 0
    /\ decoded = ZeroTable

SpecSign == InitSign /\ [][NextSign]_vars

(***************************************************************************)
(* Vocabulary of the claims about the MBR codec.                           *)
(***************************************************************************)
\* the table the projection builds from the configuration
Table == mbr_cfg_to_partitions(mbr_cfg).partitions

\* the configuration passes the projection and names a partition, so that
\* mbr_verify_cfg returns what mbr_verify returns for Table
ReachesVerify ==
    /\ mbr_cfg_to_partitions(mbr_cfg).rc = 0
    /\ mbr_cfg_to_partitions(mbr_cfg).found # {}
    /\ mbr_cfg_to_osip(mbr_cfg).rc = 0
    /\ ~mbr_cfg.bootstrap_code.present

Verified == pc \in {"verified", "created", "decoded"}

Created == pc \in {"created", "decoded"}

ActiveSlot(p) ==
    p.partition_type # 0 /\ (p.block_count # Zero32 \/ p.expand_flag)

\* block_offset + block_count as an integer (not reduced modulo 2^32), as a
\* pair <<hi, lo>> whose hi may exceed 16 bits
RangeEnd(p) ==
    LET lo == p.block_offset[2] + p.block_count[2]
    IN  << p.block_offset[1] + p.block_count[1] + (lo \div Half), lo % Half >>

\* [offset, offset+count) of p and of q have a block in common
Intersect(p, q) ==
    /\ p.block_count # Zero32
    /\ q.block_count # Zero32
    /\ Lt32(p.block_offset, RangeEnd(q))
    /\ Lt32(q.block_offset, RangeEnd(p))

SomeIntersection(t) ==
    \E i \in Slots, j \in Slots :
        i # j /\ ActiveSlot(t[i]) /\ ActiveSlot(t[j]) /\ Intersect(t[i], t[j])

\* at most one active slot expands, and no active slot follows it
ExpandIsLast(t) ==
    \A i \in Slots :
        (ActiveSlot(t[i]) /\ t[i].expand_flag)
            => \A j \in Slots : (j > i) => ~ActiveSlot(t[j])

\* the expanding slot of a table that has one as its last active slot
LastActiveExpands(t, i) ==
    /\ ActiveSlot(t[i])
    /\ t[i].expand_flag
    /\ \A j \in Slots : (j > i) => ~ActiveSlot(t[j])

\* the LE32 block_count field of entry i of an encoded record
EncodedCount(out, i) == read_le32(EntrySlice(out, i), 12)

\* C1: mbr_verify fails for every table in which two distinct active slots
\* have intersecting ranges [block_offset, block_offset+block_count), the
\* range end being the integer sum.
C1_IntersectingRejected ==
    (Verified /\ ReachesVerify /\ SomeIntersection(Table)) => verify_rc < 0

\* C2: mbr_verify succeeds for every table whose types are in 0..255, whose
\* active slots have pairwise disjoint ranges and in which the expanding
\* slot, if any, is the last active one.
C2_DisjointAccepted ==
    (/\ Verified
     /\ ReachesVerify
     /\ \A i \in Slots : Table[i].partition_type \in 0 .. 255
     /\ ~SomeIntersection(Table)
     /\ ExpandIsLast(Table))
    => verify_rc = 0

\* C3 as stated: with the last active partition expanding and num_blocks
\* nonzero, the encoded block_count of that slot is num_blocks - block_offset.
C3_AlwaysGrown ==
    (Created /\ create_rc = 0 /\ mbr_num_blocks # Zero32)
    => \A i \in Slots :
          LastActiveExpands(Table, i)
              => EncodedCount(mbr_output, i)
                     = Sub32(mbr_num_blocks, Table[i].block_offset)

\* C3 as amended: the encoded block_count of that slot is
\* num_blocks - block_offset (modulo 2^32) when num_blocks exceeds
\* block_offset + block_count (modulo 2^32), and the declared block_count
\* otherwise.
C3_GrownWhenLarger ==
    (Created /\ create_rc = 0 /\ mbr_num_blocks # Zero32)
    => \A i \in Slots :
          LastActiveExpands(Table, i)
              => EncodedCount(mbr_output, i)
                     = IF Lt32(Add32(Table[i].block_offset, Table[i].block_count),
                               mbr_num_blocks)
                       THEN Sub32(mbr_num_blocks, Table[i].block_offset)
                       ELSE Table[i].block_count

\* a record was encoded in which the last active partition was grown, and one
\* in which it kept its declared count
C3_Witness ==
    /\ Created /\ create_rc = 0 /\ mbr_num_blocks # Zero32
    /\ \E i \in Slots :
          /\ LastActiveExpands(Table, i)
          /\ Table[i].block_count # Zero32
          /\ EncodedCount(mbr_output, i) # Table[i].block_count
          /\ EncodedCount(mbr_output, i) = U32(MaxBlocks - MaxLowOff)

\* the count a slot's entry carries after encoding
WrittenCount(p, nb) ==
    IF p.expand_flag /\ Lt32(Add32(p.block_offset, p.block_count), nb)
    THEN Sub32(nb, p.block_offset)
    ELSE p.block_count

\* C4 as stated: mbr_decode of the encoded record succeeds and returns every
\* slot's boot_flag, partition_type, block_offset and block_count.
C4_RoundTrip ==
    (pc = "decoded")
    => /\ decode_rc = 0
       /\ \A i \in Slots :
             /\ decoded[i].boot_flag = Table[i].boot_flag
             /\ decoded[i].partition_type = Table[i].partition_type
             /\ decoded[i].block_offset = Table[i].block_offset
             /\ decoded[i].block_count = Table[i].block_count

\* C4 as amended: mbr_decode of the encoded record succeeds and returns every
\* slot's partition_type and block_offset; its block_count as written (grown
\* to num_blocks - block_offset for an expand_flag slot when num_blocks
\* exceeds block_offset + block_count, the declared count otherwise); and its
\* boot_flag when partition_type is nonzero, false when it is 0.
C4_RoundTripAmended ==
    (pc = "decoded")
    => /\ decode_rc = 0
       /\ \A i \in Slots :
             /\ decoded[i].boot_flag
                    = (Table[i].partition_type # 0 /\ Table[i].boot_flag)
             /\ decoded[i].partition_type = Table[i].partition_type
             /\ decoded[i].block_offset = Table[i].block_offset
             /\ decoded[i].block_count = WrittenCount(Table[i], mbr_num_blocks)

\* a record was decoded that held a bootable partition at a large offset
\* next to an unused entry carrying an offset and a count
C4_Witness ==
    /\ pc = "decoded"
    /\ \E i \in Slots, j \in Slots :
          /\ decoded[i].partition_type # 0
          /\ decoded[i].boot_flag
          /\ decoded[i].block_offset = U32(MaxLowOff)
          /\ decoded[j].partition_type = 0
          /\ decoded[j].block_count = U32(MaxCount)

\* C9: mbr_verify_cfg succeeds exactly when mbr_create_cfg succeeds on the
\* same configuration.
C9_SameValidation ==
    Created => ((verify_rc = 0) <=> (create_rc = 0))

\* the XOR of the bytes out[0 .. n-1] is 0: every bit is set in an even
\* number of them
XorIsZero(out, n) ==
    \A b \in 0 .. 7 :
        Cardinality({ k \in 0 .. (n - 1) : (Byte(out, k) \div (2 ^ b)) % 2 = 1 }) % 2 = 0

\* the configuration asks for an OSIP header and mbr_create wrote it
OsipWritten ==
    Created /\ create_rc = 0 /\ mbr_cfg.include_osip

\* C10: the OSIP header has length 32 + 24*num_images (its size field says
\* so and nothing is written beyond it), and the XOR of all of its bytes,
\* the checksum byte included, is 0.
C10_OsipChecksum ==
    OsipWritten
    => LET n == mbr_cfg_to_osip(mbr_cfg).osip.num_images
       IN  /\ n \in 1 .. 15
           /\ Byte(mbr_output, 10) + 256 * Byte(mbr_output, 11) = 32 + 24 * n
           /\ Byte(mbr_output, 9) = n
           /\ XorIsZero(mbr_output, 32 + 24 * n)
           /\ \A k \in (32 + 24 * n) .. 439 : Byte(mbr_output, k) = 0

\* a header with 15 images, a nonzero last descriptor and a nonzero checksum
C10_Witness ==
    /\ OsipWritten
    /\ Byte(mbr_output, 9) = 15
    /\ Byte(mbr_output, 7) # 0
    /\ Byte(mbr_output, 32 + 24 * 14) # 0


\* the address handed to lba_to_chs for the end of slot p's entry
ChsEndAddress(p, nb) ==
    Sub32(Add32(p.block_offset, EffectiveCount(p, nb)), One32)

BeyondChs(lba) == ~Le32(lba, U32(ChsLimit))

\* bytes lo .. lo+2 of entry i of an encoded record are zero
ChsBytesZero(out, i, lo) ==
    \A k \in lo .. lo + 2 : Byte(EntrySlice(out, i), k) = 0

\* C11: for every partition with nonzero type, when the start address
\* (block_offset) or the end address (block_offset + effective count - 1,
\* 32-bit) handed to lba_to_chs exceeds 63*255*1023, the three CHS bytes of
\* the encoded entry for it (1..3, 5..7) are zero, whatever the output buffer
\* held before the call.
C11_UnrepresentableChsZero ==
    (Created /\ create_rc = 0)
    => \A i \in Slots :
          (Table[i].partition_type # 0)
          => /\ BeyondChs(Table[i].block_offset)
                    => ChsBytesZero(mbr_output, i, 1)
             /\ BeyondChs(ChsEndAddress(Table[i], mbr_num_blocks))
                    => ChsBytesZero(mbr_output, i, 5)

\* the range entry i of the encoded record carries
WrittenRange(i) ==
    [block_offset |-> read_le32(EntrySlice(mbr_output, i), 8),
     block_count |-> EncodedCount(mbr_output, i)]

\* C12: for every table that passes mbr_verify and every num_blocks, the
\* ranges [block_offset, block_offset + written count) of the encoded record
\* are pairwise disjoint among slots with nonzero type and nonzero written
\* count: growing the expanding partition never makes it cover another one.
C12_WrittenRangesDisjoint ==
    (Created /\ create_rc = 0)
    => \A i \in Slots, j \in Slots :
          (/\ i # j
           /\ Table[i].partition_type # 0
           /\ Table[j].partition_type # 0)
          => ~Intersect(WrittenRange(i), WrittenRange(j))

(***************************************************************************)
(* Vocabulary of the claims about fwup_sign.                               *)
(***************************************************************************)
Returned == sign.pc = "done"

IsMetaConf(e) == e.name = "meta.conf"

IsSignature(e) == e.name = "meta.conf.ed25519"

IsPayload(e) == ~IsMetaConf(e) /\ ~IsSignature(e)

\* the positions of the entries named meta.conf among the entries read so far
MetaConfRead == {i \in 1 .. sign.pos : IsMetaConf(in_archive[i])}

Payloads == SelectSeq(in_archive, IsPayload)

FullCopy(e) ==
    [name |-> e.name, size |-> e.size, data |-> e.size,
     filetype |-> "AE_IFREG", perm |-> 420]

\* the output archive a complete re-signing of in_archive holds
ExpectedOutput ==
    LET m == in_archive[CHOOSE i \in 1 .. Len(in_archive) :
                           /\ IsMetaConf(in_archive[i])
                           /\ \A j \in 1 .. i - 1 : ~IsMetaConf(in_archive[j])]
    IN  << [name |-> "meta.conf", size |-> m.size, data |-> m.size,
            filetype |-> "AE_IFREG", perm |-> 420],
           [name |-> "meta.conf.ed25519", size |-> 64, data |-> 64,
            filetype |-> "AE_IFREG", perm |-> 420] >>
        \o [k \in 1 .. Len(Payloads) |-> FullCopy(Payloads[k])]

\* C5: when fwup_sign returns success, the output archive is meta.conf, a
\* fresh meta.conf.ed25519, then every other input entry in input order with
\* its pathname, size, full content, regular file type and mode 0644,
\* whatever the archive reader returned during the run.
C5_OutputComplete ==
    (Returned /\ sign.rc = 0) =>
        /\ \E i \in 1 .. Len(in_archive) : IsMetaConf(in_archive[i])
        /\ out_archive = ExpectedOutput

\* C6: whenever fwup_sign returns an error, the file at output_filename has
\* the content it had before the call, or is still absent.
C6_TargetKeptOnError ==
    (Returned /\ sign.rc # 0) => files.output = files.before

\* exactly one meta.conf was read, of 10 to 49999 bytes, after signatures only
ReadWellFormed ==
    /\ Cardinality(MetaConfRead) = 1
    /\ \A i \in MetaConfRead :
          /\ in_archive[i].size >= 10
          /\ in_archive[i].size <= 49999
          /\ \A j \in 1 .. i - 1 : IsSignature(in_archive[j])

\* a second meta.conf, a meta.conf out of bounds or a payload entry ahead of
\* meta.conf has been read
ReadRejected ==
    \/ Cardinality(MetaConfRead) >= 2
    \/ \E i \in MetaConfRead :
          in_archive[i].size < 10 \/ in_archive[i].size > 49999
    \/ \E j \in 1 .. sign.pos :
          /\ IsPayload(in_archive[j])
          /\ \A i \in MetaConfRead : i > j

\* C7: fwup_sign returns success only if exactly one meta.conf was read, of
\* 10 to 49999 bytes, with nothing but meta.conf.ed25519 read before it; once
\* a second meta.conf, an out-of-bound meta.conf or a payload entry ahead of
\* meta.conf is read the run is failing and rename is never called, and a run
\* that read no meta.conf returns an error without calling rename.
C7_SuccessNeedsOneMetaConf ==
    /\ (Returned /\ sign.rc = 0) => ReadWellFormed
    /\ ReadRejected =>
          /\ sign.pc \in {"cleanup", "done"}
          /\ sign.rc # 0
          /\ ~sign.rename_called
          /\ files.output = files.before
    /\ (Returned /\ MetaConfRead = {}) =>
          /\ sign.rc # 0
          /\ ~sign.rename_called

\* C7 witness: a successful run over a stale signature, a meta.conf of the
\* largest accepted size and a payload entry, renamed into place.
C7_Witness ==
    /\ Returned
    /\ sign.rc = 0
    /\ sign.rename_called
    /\ sign.pos = 3
    /\ IsSignature(in_archive[1])
    /\ IsMetaConf(in_archive[2])
    /\ in_archive[2].size = 49999
    /\ IsPayload(in_archive[3])
    /\ files.output = "new"

\* C8: when fwup_sign returns, every resource it acquired has been released
\* exactly once.
C8_ReleasedExactlyOnce ==
    Returned => \A r \in Resources : ledger[r].acq = ledger[r].rel

====
